---- MODULE Spec2Model ----
(***************************************************************************)
(* A model of mx's OS-abstraction and logging layer: mx_system.py (the    *)
(* platform probe, kill_process, send_sigquit, abort, abort_or_warn) and  *)
(* mx_logging.py (log, logv, logvv, log_error, warn).                     *)
(*                                                                         *)
(* Python strings are sequences of one-character strings, so that prefix  *)
(* tests, splitting and concatenation are computed, not assumed.  Python  *)
(* values of several types are tagged records (PyInt, PyStr, ...).        *)
(***************************************************************************)
EXTENDS Integers, Sequences, FiniteSets, TLC

VARIABLES
    platform,             \* sys.platform
    procs,                \* OS process table: pid -> "running" | "gone"
    pgid,                 \* OS process table: pid -> process group id
    currentSubprocesses,  \* mx_shared._currentSubprocesses: <<[pid, args]>>
    opts,                 \* mx_shared._opts
    pc,                   \* the statement control is at
    frame,                \* parameters and locals of the running call
    sent,                 \* signals and terminate calls issued, in order
    out,                  \* lines print()ed on stdout, in order
    err,                  \* lines print()ed on stderr, in order
    stderr_isatty,        \* sys.stderr.isatty()
    result,               \* how the top-level call ended
    calls,                \* history: the logv / logvv calls made, in order
    fs                    \* the file system entry at the path handed to rmtree

vars == <<platform, procs, pgid, currentSubprocesses, opts, pc, frame, sent, out, err,
          stderr_isatty, result, calls, fs>>

----------------------------------------------------------------------------
(* Bounds *)

\* most entries the subprocess registry holds
MaxProcs == 2

\* most logv / logvv calls a run makes
MaxLogCalls == 2

\* most escape sequences already wrapped around a message handed to colorize
MaxWraps == 1

\* most components after the root of a path handed to safe_path
MaxComps == 2

----------------------------------------------------------------------------
(* Strings *)

S_darwin == <<"d", "a", "r", "w", "i", "n">>
S_linux == <<"l", "i", "n", "u", "x">>
S_openbsd == <<"o", "p", "e", "n", "b", "s", "d">>
S_sunos == <<"s", "u", "n", "o", "s">>
S_solaris == <<"s", "o", "l", "a", "r", "i", "s">>
S_win32 == <<"w", "i", "n", "3", "2">>
S_windows == <<"w", "i", "n", "d", "o", "w", "s">>
S_cygwin == <<"c", "y", "g", "w", "i", "n">>
S_java == <<"j", "a", "v", "a">>
S_boom == <<"b", "o", "o", "m">>
S_ctx == <<"c", "t", "x">>
S_empty == <<>>
S_bin_java == <<"/", "b", "i", "n", "/", "j", "a", "v", "a">>
S_javac == <<"j", "a", "v", "a", "c">>
S_freebsd == <<"f", "r", "e", "e", "b", "s", "d">>
S_colon_nl == <<":", "\n">>
S_warning == <<"W", "A", "R", "N", "I", "N", "G", ":", " ">>

\* str.startswith
startswith(s, prefix) ==
    /\ Len(s) >= Len(prefix)
    /\ SubSeq(s, 1, Len(prefix)) = prefix

\* s.split(sep)[-1]: what follows the last occurrence of sep (all of s if none)
RECURSIVE split_last(_, _)
split_last(s, sep) ==
    IF \E k \in 1..Len(s) : s[k] = sep
    THEN split_last(Tail(s), sep)
    ELSE s

----------------------------------------------------------------------------
(* Python values *)

PyNone == [t |-> "none"]
PyInt(n) == [t |-> "int", v |-> n]
PyStr(s) == [t |-> "str", v |-> s]
\* an object that is neither an int nor a str, such as an exception instance
PyObj == [t |-> "obj"]
\* a callable context, returning s when called
PyCallable(s) == [t |-> "callable", v |-> s]

\* truthiness of a str
truthy(s) == Len(s) > 0

----------------------------------------------------------------------------
(* Platform probe *)

is_darwin == startswith(platform, S_darwin)
is_linux == startswith(platform, S_linux)
is_openbsd == startswith(platform, S_openbsd)
is_sunos == startswith(platform, S_sunos)
is_windows == startswith(platform, S_win32)
is_cygwin == startswith(platform, S_cygwin)

\* os.sep
os_sep == IF is_windows THEN "\\" ELSE "/"

\* get_os, lines 103-114: the canonical name, or no value when no prefix matches
\* and control reaches the abort() call of line 116
get_os ==
    IF is_darwin THEN [matched |-> TRUE, name |-> S_darwin]
    ELSE IF is_linux THEN [matched |-> TRUE, name |-> S_linux]
    ELSE IF is_openbsd THEN [matched |-> TRUE, name |-> S_openbsd]
    ELSE IF is_sunos THEN [matched |-> TRUE, name |-> S_solaris]
    ELSE IF is_windows THEN [matched |-> TRUE, name |-> S_windows]
    ELSE IF is_cygwin THEN [matched |-> TRUE, name |-> S_cygwin]
    ELSE [matched |-> FALSE, name |-> S_empty]

----------------------------------------------------------------------------
(* Console reporter (mx_logging.py) *)

\* str(v)
py_str(v) ==
    CASE v.t = "str" -> v.v
      [] v.t = "none" -> <<"N", "o", "n", "e">>
      [] v.t = "int" -> <<ToString(v.v)>>
      [] OTHER -> <<"<object>">>

\* log(msg) on the option record o and the stdout lines so far: the new stdout
log(o, stdout, msg) ==
    IF o.quiet THEN stdout
    ELSE IF msg = PyNone THEN Append(stdout, S_empty)
    ELSE Append(stdout, py_str(msg))

\* a logv that prints at once while the flag is undetermined
logv_undeferred(o, stdout, msg) ==
    IF o.verbose = "None" \/ o.verbose = "True"
    THEN [opts |-> o, out |-> log(o, stdout, msg)]
    ELSE [opts |-> o, out |-> stdout]

\* logv(msg): the new option record and stdout
logv(o, stdout, msg) ==
    IF o.verbose = "None"
    THEN [opts |-> [o EXCEPT !.parsed_deferrables =
                        Append(@, [fn |-> "logv", msg |-> msg])],
          out |-> stdout]
    ELSE IF o.verbose = "True"
    THEN [opts |-> o, out |-> log(o, stdout, msg)]
    ELSE [opts |-> o, out |-> stdout]

\* logvv(msg): the new option record and stdout
logvv(o, stdout, msg) ==
    IF o.very_verbose = "None"
    THEN [opts |-> [o EXCEPT !.parsed_deferrables =
                        Append(@, [fn |-> "logvv", msg |-> msg])],
          out |-> stdout]
    ELSE IF o.very_verbose = "True"
    THEN [opts |-> o, out |-> log(o, stdout, msg)]
    ELSE [opts |-> o, out |-> stdout]

\* the closure _deferrable queued by logv / logvv, called
deferrable(o, stdout, d) ==
    IF d.fn = "logv" THEN logv(o, stdout, d.msg) ELSE logvv(o, stdout, d.msg)

ansi_color_table ==
    [c \in {"black", "red", "green", "yellow", "blue", "magenta", "cyan"} |->
        CASE c = "black" -> <<"3", "0">>
          [] c = "red" -> <<"3", "1">>
          [] c = "green" -> <<"3", "2">>
          [] c = "yellow" -> <<"3", "3">>
          [] c = "blue" -> <<"3", "4">>
          [] c = "magenta" -> <<"3", "5">>
          [] c = "cyan" -> <<"3", "6">>]

\* the escape sequence switching the color on; "ESC" stands for \033
color_on(color, bright) ==
    <<"ESC", "[">> \o ansi_color_table[color]
        \o (IF bright THEN <<";", "1">> ELSE <<>>) \o <<"m">>

color_reset == <<"ESC", "[", "0", "m">>

\* colorize(msg, color, bright, stream) for a string msg and a color of the table
colorize(msg, color, bright, isatty) ==
    IF ~startswith(msg, color_on(color, bright))
       /\ (startswith(platform, S_linux) \/ platform \in {S_darwin, S_freebsd})
       /\ isatty
    THEN color_on(color, bright) \o msg \o color_reset
    ELSE msg

\* log_error(msg): the line printed on stderr
log_error(msg) ==
    IF msg = PyNone THEN <<"<sys.stderr>">>
    ELSE colorize(py_str(msg), "red", TRUE, stderr_isatty)

\* the context description of warn and abort for a context that is not None
describe(context) ==
    IF context.t = "callable" THEN context.v
    ELSE py_str(context)

\* warn(msg, context): the new stderr lines
warn(o, stderr, msg, context) ==
    IF o.warn
    THEN LET m == IF context # PyNone
                  THEN describe(context) \o S_colon_nl \o msg
                  ELSE msg
         IN Append(stderr, colorize(S_warning \o m, "magenta", TRUE, stderr_isatty))
    ELSE stderr

----------------------------------------------------------------------------
(* Process lifecycle controller (mx_system.py) *)

\* how a call ends
NoResult == [kind |-> "none"]
Returned(v) == [kind |-> "return", value |-> v]
\* an exception leaving the call, with the line that raised it
Raised(exc, line) == [kind |-> "raise", exc |-> exc, line |-> line]
SystemExit(code) == [kind |-> "SystemExit", code |-> code]

\* what is at a path: nothing, a file or a directory; denied says whether the
\* OS refuses to delete it: "no", "until_chmod" (it is read-only) or "always"
Missing == [kind |-> "missing", denied |-> "no"]
Entry(kind, denied) == [kind |-> kind, denied |-> denied]

PyBool(b) == [t |-> "bool", v |-> b]

\* a liveness check that takes every registered process for alive
is_process_alive_always(pid) == TRUE

\* is_process_alive(p): p.poll() is None / p.is_alive()
is_process_alive(pid) == procs[pid] = "running"

\* _isJava() of send_sigquit, for the argument list of the entry
isJava(args) ==
    IF Len(args) > 0
    THEN split_last(args[1], os_sep) = S_java
    ELSE FALSE

\* a signal or terminate call the OS accepted
Signal(pid, sig, target) == [pid |-> pid, sig |-> sig, target |-> target]

\* kill_process(pid, sig): every way the call can end.  os.getpgid (line 150)
\* fails for a pid that is gone, and that is outside the try.  Inside the try,
\* the signal is delivered, or os.kill / os.killpg fails because the process
\* went away after os.getpgid; the except clause logs and returns False.
kill_process(pid, sig) ==
    IF procs[pid] = "gone"
    THEN {[end |-> Raised("ProcessLookupError", 150), opts |-> opts, out |-> out,
           sent |-> sent, procs |-> procs]}
    ELSE LET l == logvv(opts, out, PyStr(<<"[sending ", sig, " to ", ToString(pid), "]">>))
         IN {[end |-> Returned(PyBool(TRUE)), opts |-> l.opts, out |-> l.out,
              sent |-> Append(sent, Signal(pid, sig,
                                  IF pgid[pid] = pid THEN "group" ELSE "pid")),
              procs |-> procs],
             [end |-> Returned(PyBool(FALSE)), opts |-> l.opts,
              out |-> log(l.opts, l.out,
                          PyStr(<<"Error killing subprocess ", ToString(pid)>>)),
              sent |-> sent,
              procs |-> [procs EXCEPT ![pid] = "gone"]]}

\* p.terminate() on Windows: a process that has already exited is left alone
terminate(pid) ==
    IF procs[pid] = "running"
    THEN Append(sent, Signal(pid, "terminate", "handle"))
    ELSE sent

----------------------------------------------------------------------------
(* Abort controller (mx_system.py) *)

\* lines 283-291
contextMsg(context) ==
    IF context # PyNone THEN describe(context) ELSE S_empty

\* lines 293-303: error_message and error_code, or the TypeError of line 299
\* when codeOrMessage is not a str
resolve(codeOrMessage, ctxMsg) ==
    IF codeOrMessage.t = "int"
    THEN [raised |-> FALSE, error_message |-> PyStr(ctxMsg),
          error_code |-> codeOrMessage.v]
    ELSE IF truthy(ctxMsg)
    THEN IF codeOrMessage.t = "str"
         THEN [raised |-> FALSE,
               error_message |-> PyStr(ctxMsg \o S_colon_nl \o codeOrMessage.v),
               error_code |-> 1]
         ELSE [raised |-> TRUE, error_message |-> PyNone, error_code |-> 1]
    ELSE [raised |-> FALSE, error_message |-> codeOrMessage, error_code |-> 1]

\* a loop that stops after its first entry
exhausted_after_first(k, registry) == k > Len(registry) \/ k > 1

\* the for loops of abort and send_sigquit have run out of entries
exhausted(k, registry) == k > Len(registry)

----------------------------------------------------------------------------
(* Inputs *)

\* sys.platform values: the six supported families and one that is not
Platforms == {S_linux, S_darwin, S_openbsd \o <<"6">>, S_sunos \o <<"5">>, S_win32,
              S_cygwin, S_freebsd \o <<"1", "2">>}

\* the platforms the teardown is explored on: one Unix-like, and Windows
TeardownPlatforms == {S_linux, S_win32}

\* tracked subprocesses: the argument list, and whether the process leads its
\* own process group (the two are independent in the code: only send_sigquit
\* reads the arguments, only kill_process the group)
Entries ==
    {[args |-> <<S_bin_java, <<"-", "v">>>>, leader |-> TRUE],
     [args |-> <<S_java>>, leader |-> FALSE],
     [args |-> <<S_javac>>, leader |-> TRUE],
     [args |-> <<>>, leader |-> FALSE]}

\* option records: killwithsigquit and warn, with verbosity settled and off
Options ==
    {[killwithsigquit |-> k, warn |-> w, verbose |-> "False", very_verbose |-> "False",
      quiet |-> FALSE, parsed_deferrables |-> <<>>] :
        <<k, w>> \in {<<FALSE, TRUE>>, <<TRUE, TRUE>>, <<FALSE, FALSE>>}}

PySignal(name) == [t |-> "signal", v |-> name]

\* calls of abort: (codeOrMessage, context, killsig)
AbortCalls ==
    {<<PyInt(0), PyNone, PySignal("SIGTERM")>>,
     <<PyInt(5), PyNone, PySignal("SIGTERM")>>,
     <<PyInt(5), PyStr(S_ctx), PySignal("SIGINT")>>,
     <<PyStr(S_boom), PyNone, PySignal("SIGTERM")>>,
     <<PyStr(S_boom), PyStr(S_ctx), PySignal("SIGTERM")>>,
     <<PyStr(S_boom), PyCallable(S_ctx), PySignal("SIGINT")>>,
     <<PyStr(S_boom), PyStr(S_empty), PySignal("SIGTERM")>>,
     <<PyNone, PyNone, PySignal("SIGTERM")>>,
     <<PyNone, PyStr(S_ctx), PySignal("SIGTERM")>>,
     <<PyObj, PyNone, PySignal("SIGINT")>>,
     <<PyObj, PyStr(S_ctx), PySignal("SIGTERM")>>}

\* context arguments of abort_or_warn
Contexts == {PyNone, PyStr(S_ctx), PyCallable(S_ctx)}

Signals == {"SIGTERM", "SIGINT", "SIGKILL"}

NoFrame ==
    [op |-> "none", args |-> <<>>, codeOrMessage |-> PyNone, context |-> PyNone,
     killsig |-> "SIGTERM", i |-> 0, j |-> 0, ret |-> "none",
     error_message |-> PyNone, error_code |-> 0,
     pid |-> 0, sig |-> "none", message |-> PyNone, should_abort |-> FALSE,
     color |-> "red", bright |-> TRUE, prev |-> PyNone,
     path |-> <<>>, ignore_errors |-> FALSE, target |-> Missing, exc |-> "none"]

Pids == DOMAIN procs

----------------------------------------------------------------------------
(* Initial states: mx has spawned and registered its subprocesses (the       *)
(* registration code is mx_shared's and run()'s), options are parsed, no    *)
(* operation is running.  A subprocess that does not lead its own group is  *)
(* in mx's group, written 0.  Every platform, and stderr as a terminal or   *)
(* not, is explored with an empty registry; the teardown platforms with     *)
(* every registry.                                                          *)
(* mx_system.py is the module imported first, the order in which its       *)
(* operations find log, logv, log_error and warn bound.                     *)

Init ==
    /\ \E n \in 0..MaxProcs :
          /\ \E e \in [1..n -> Entries] :
                /\ currentSubprocesses = [k \in 1..n |-> [pid |-> k, args |-> e[k].args]]
                /\ pgid = [k \in 1..n |-> IF e[k].leader THEN k ELSE 0]
          /\ procs = [k \in 1..n |-> "running"]
          /\ platform \in (IF n = 0 THEN Platforms ELSE TeardownPlatforms)
          /\ stderr_isatty \in (IF n = 0 THEN BOOLEAN ELSE {FALSE})
    /\ opts \in Options
    /\ pc = "idle"
    /\ frame = NoFrame
    /\ sent = <<>>
    /\ out = <<>>
    /\ err = <<>>
    /\ result = NoResult
    /\ calls = <<>>
    /\ fs = Missing

\* what no operation of mx_system.py changes
env == <<platform, pgid, currentSubprocesses, stderr_isatty, calls, fs>>

----------------------------------------------------------------------------
(* The supervised subprocesses *)

\* a subprocess exits (on its own or after a signal) and is reaped, at any
\* moment before the call has ended
ProcExit(pid) ==
    /\ pc # "done"
    /\ procs[pid] = "running"
    /\ procs' = [procs EXCEPT ![pid] = "gone"]
    /\ UNCHANGED <<env, opts, pc, frame, sent, out, err, result>>

----------------------------------------------------------------------------
(* Top-level calls *)

CallAbort(args) ==
    /\ pc = "idle"
    /\ frame' = [NoFrame EXCEPT !.op = "abort", !.args = args]
    /\ pc' = "abort_246"
    /\ UNCHANGED <<env, procs, opts, sent, out, err, result>>

CallGetOs ==
    /\ pc = "idle"
    /\ frame' = [NoFrame EXCEPT !.op = "get_os"]
    /\ pc' = "get_os_103"
    /\ UNCHANGED <<env, procs, opts, sent, out, err, result>>

CallAbortOrWarn(message, should_abort, context) ==
    /\ pc = "idle"
    /\ frame' = [NoFrame EXCEPT !.op = "abort_or_warn", !.message = message,
                                !.should_abort = should_abort, !.context = context]
    /\ pc' = "abort_or_warn_309"
    /\ UNCHANGED <<env, procs, opts, sent, out, err, result>>

CallKillProcess(pid, sig) ==
    /\ pc = "idle"
    /\ frame' = [NoFrame EXCEPT !.op = "kill_process", !.pid = pid, !.sig = sig]
    /\ pc' = "kill_process_150"
    /\ UNCHANGED <<env, procs, opts, sent, out, err, result>>

CallSendSigquit ==
    /\ pc = "idle"
    /\ frame' = [NoFrame EXCEPT !.op = "send_sigquit", !.j = 1, !.ret = "return"]
    /\ pc' = "send_sigquit_127"
    /\ UNCHANGED <<env, procs, opts, sent, out, err, result>>

----------------------------------------------------------------------------
(* get_os and abort_or_warn *)

\* get_os, lines 103-116: return the canonical name, or call abort()
get_os_103 ==
    /\ pc = "get_os_103"
    /\ IF get_os.matched
       THEN /\ result' = Returned(PyStr(get_os.name))
            /\ pc' = "done"
            /\ frame' = frame
       ELSE /\ frame' = [frame EXCEPT !.args = <<>>]
            /\ pc' = "abort_246"
            /\ result' = result
    /\ UNCHANGED <<env, procs, opts, sent, out, err>>

\* abort_or_warn, lines 309-312: call abort() or warn(message, context)
abort_or_warn_309 ==
    /\ pc = "abort_or_warn_309"
    /\ IF frame.should_abort
       THEN /\ frame' = [frame EXCEPT !.args = <<>>]
            /\ pc' = "abort_246"
            /\ UNCHANGED <<err, result>>
       ELSE /\ err' = warn(opts, err, frame.message.v, frame.context)
            /\ result' = Returned(PyNone)
            /\ pc' = "done"
            /\ frame' = frame
    /\ UNCHANGED <<env, procs, opts, sent, out>>

----------------------------------------------------------------------------
(* kill_process and send_sigquit *)

\* kill_process called on its own, lines 150-160
kill_process_150 ==
    /\ pc = "kill_process_150"
    /\ \E o \in kill_process(frame.pid, frame.sig) :
          /\ result' = o.end
          /\ opts' = o.opts
          /\ out' = o.out
          /\ sent' = o.sent
          /\ procs' = o.procs
    /\ pc' = "done"
    /\ UNCHANGED <<env, frame, err>>

\* send_sigquit, lines 127-137 and 142: the loop header, the test of line 135
\* and, on Windows, the notice and the pause
send_sigquit_127 ==
    /\ pc = "send_sigquit_127"
    /\ IF exhausted(frame.j, currentSubprocesses)
       THEN /\ IF frame.ret = "return"
               THEN result' = Returned(PyNone) /\ pc' = "done"
               ELSE result' = result /\ pc' = frame.ret
            /\ UNCHANGED <<frame, out>>
       ELSE LET e == currentSubprocesses[frame.j]
            IN IF is_process_alive(e.pid) /\ isJava(e.args)
               THEN IF is_windows
                    THEN /\ out' = log(opts, out, PyStr(<<"mx: implement me! want to send SIGQUIT to my child process">>))
                         /\ frame' = [frame EXCEPT !.j = @ + 1]
                         /\ UNCHANGED <<pc, result>>
                    ELSE /\ pc' = "send_sigquit_140"
                         /\ UNCHANGED <<frame, out, result>>
               ELSE /\ frame' = [frame EXCEPT !.j = @ + 1]
                    /\ UNCHANGED <<pc, out, result>>
    /\ UNCHANGED <<env, procs, opts, sent, err>>

\* send_sigquit, lines 140-142: os.kill(p.pid, SIGQUIT), which raises for a pid
\* that is gone, then the pause
send_sigquit_140 ==
    /\ pc = "send_sigquit_140"
    /\ LET e == currentSubprocesses[frame.j]
           l == logv(opts, out, PyStr(<<"sending SIGQUIT to ", ToString(e.pid)>>))
       IN /\ opts' = l.opts
          /\ out' = l.out
          /\ IF procs[e.pid] = "running"
             THEN /\ sent' = Append(sent, Signal(e.pid, "SIGQUIT", "pid"))
                  /\ frame' = [frame EXCEPT !.j = @ + 1]
                  /\ pc' = "send_sigquit_127"
                  /\ result' = result
             ELSE /\ result' = Raised("ProcessLookupError", 141)
                  /\ pc' = "done"
                  /\ UNCHANGED <<sent, frame>>
    /\ UNCHANGED <<env, procs, err>>

----------------------------------------------------------------------------
(* abort *)

\* line 246: the call binds its arguments; codeOrMessage has no default
abort_246 ==
    /\ pc = "abort_246"
    /\ IF Len(frame.args) < 1
       THEN /\ result' = Raised("TypeError", 246)
            /\ pc' = "done"
            /\ frame' = frame
       ELSE /\ frame' = [frame EXCEPT
                    !.codeOrMessage = frame.args[1],
                    !.context = IF Len(frame.args) >= 2 THEN frame.args[2] ELSE PyNone,
                    !.killsig = IF Len(frame.args) >= 3 THEN frame.args[3].v
                                ELSE "SIGTERM"]
            /\ pc' = "abort_259"
            /\ result' = result
    /\ UNCHANGED <<env, procs, opts, sent, out, err>>

\* lines 259-261: the SIGQUIT pass when killwithsigquit is set
abort_259 ==
    /\ pc = "abort_259"
    /\ IF opts.killwithsigquit
       THEN LET l == logv(opts, out, PyStr(<<"sending SIGQUIT to subprocesses on abort">>))
            IN /\ opts' = l.opts
               /\ out' = l.out
               /\ frame' = [frame EXCEPT !.i = 1, !.j = 1, !.ret = "abort_264"]
               /\ pc' = "send_sigquit_127"
       ELSE /\ frame' = [frame EXCEPT !.i = 1]
            /\ pc' = "abort_264"
            /\ UNCHANGED <<opts, out>>
    /\ UNCHANGED <<env, procs, sent, err, result>>

\* lines 263-264: the loop header and the first liveness check
abort_264 ==
    /\ pc = "abort_264"
    /\ IF exhausted(frame.i, currentSubprocesses)
       THEN pc' = "abort_280"
       ELSE IF is_process_alive(currentSubprocesses[frame.i].pid)
            THEN pc' = "abort_265"
            ELSE pc' = "abort_270"
    /\ UNCHANGED <<env, procs, opts, frame, sent, out, err, result>>

\* lines 265-269: the graceful attempt, outside any try, and the pause
abort_265 ==
    /\ pc = "abort_265"
    /\ LET p == currentSubprocesses[frame.i].pid
       IN IF is_windows
          THEN /\ sent' = terminate(p)
               /\ pc' = "abort_270"
               /\ UNCHANGED <<procs, opts, out, result>>
          ELSE \E o \in kill_process(p, frame.killsig) :
                  /\ opts' = o.opts
                  /\ out' = o.out
                  /\ sent' = o.sent
                  /\ procs' = o.procs
                  /\ IF o.end.kind = "raise"
                     THEN result' = o.end /\ pc' = "done"
                     ELSE result' = result /\ pc' = "abort_270"
    /\ UNCHANGED <<env, frame, err>>

\* a line 270 that goes on to the forced kill without looking
abort_270_unchecked ==
    /\ pc = "abort_270"
    /\ pc' = "abort_271"
    /\ UNCHANGED <<env, procs, opts, frame, sent, out, err, result>>

\* line 270: the second liveness check
abort_270 ==
    /\ pc = "abort_270"
    /\ IF is_process_alive(currentSubprocesses[frame.i].pid)
       THEN pc' = "abort_271" /\ frame' = frame
       ELSE pc' = "abort_264" /\ frame' = [frame EXCEPT !.i = @ + 1]
    /\ UNCHANGED <<env, procs, opts, sent, out, err, result>>

\* lines 271-278: the forced kill; whatever it raises is caught, and logged if
\* the process is still alive
abort_271 ==
    /\ pc = "abort_271"
    /\ LET e == currentSubprocesses[frame.i]
       IN IF is_windows
          THEN /\ sent' = terminate(e.pid)
               /\ UNCHANGED <<procs, opts, out, err>>
          ELSE \E o \in kill_process(e.pid, "SIGKILL") :
                  /\ opts' = o.opts
                  /\ out' = o.out
                  /\ sent' = o.sent
                  /\ procs' = o.procs
                  /\ IF o.end.kind = "raise" /\ o.procs[e.pid] = "running"
                     THEN err' = Append(err, log_error(PyStr(
                              <<"error while killing subprocess ", ToString(e.pid)>>)))
                     ELSE err' = err
    /\ frame' = [frame EXCEPT !.i = @ + 1]
    /\ pc' = "abort_264"
    /\ UNCHANGED <<env, result>>

\* lines 280-304: the stack trace in verbose mode, the message and the exit
\* status, and the error line
abort_280 ==
    /\ pc = "abort_280"
    /\ LET traced == IF opts.verbose = "True" THEN Append(err, <<"<stack>">>) ELSE err
           r == resolve(frame.codeOrMessage, contextMsg(frame.context))
       IN IF r.raised
          THEN /\ err' = traced
               /\ result' = Raised("TypeError", 299)
               /\ pc' = "done"
               /\ frame' = frame
          ELSE /\ err' = Append(traced, log_error(r.error_message))
               /\ frame' = [frame EXCEPT !.error_message = r.error_message,
                                         !.error_code = r.error_code]
               /\ pc' = "abort_305"
               /\ result' = result
    /\ UNCHANGED <<env, procs, opts, sent, out>>

\* line 305: raise SystemExit(error_code)
abort_305 ==
    /\ pc = "abort_305"
    /\ result' = SystemExit(frame.error_code)
    /\ pc' = "done"
    /\ UNCHANGED <<env, procs, opts, frame, sent, out, err>>

----------------------------------------------------------------------------

Next ==
    \/ \E pid \in Pids : ProcExit(pid)
    \/ \E args \in AbortCalls : CallAbort(args)
    \/ CallGetOs
    \/ \E ctx \in Contexts, b \in BOOLEAN : CallAbortOrWarn(PyStr(S_boom), b, ctx)
    \/ \E pid \in Pids, sig \in Signals : CallKillProcess(pid, sig)
    \/ CallSendSigquit
    \/ get_os_103
    \/ abort_or_warn_309
    \/ kill_process_150
    \/ send_sigquit_127
    \/ send_sigquit_140
    \/ abort_246
    \/ abort_259
    \/ abort_264
    \/ abort_265
    \/ abort_270
    \/ abort_271
    \/ abort_280
    \/ abort_305

Spec == Init /\ [][Next]_vars

----------------------------------------------------------------------------
(* Early logging: logv / logvv calls, and the option parser that settles the *)
(* flags and replays the queue (the parser is not part of these files).     *)

\* messages handed to logv / logvv
LogMessages == {PyStr(S_boom), PyStr(S_ctx), PyNone}

InitLog ==
    /\ platform = S_linux
    /\ currentSubprocesses = <<>>
    /\ procs = <<>>
    /\ pgid = <<>>
    /\ opts = [killwithsigquit |-> FALSE, warn |-> TRUE, verbose |-> "None",
               very_verbose |-> "None", quiet |-> FALSE, parsed_deferrables |-> <<>>]
    /\ pc = "idle"
    /\ frame = NoFrame
    /\ sent = <<>>
    /\ out = <<>>
    /\ err = <<>>
    /\ stderr_isatty = FALSE
    /\ result = NoResult
    /\ calls = <<>>
    /\ fs = Missing

\* what neither logging nor the option parser changes
logenv == <<platform, procs, pgid, currentSubprocesses, sent, err, stderr_isatty, result,
            fs>>

\* logv(msg) called, lines 37-45
CallLogv(msg) ==
    /\ pc = "idle"
    /\ Len(calls) < MaxLogCalls
    /\ LET r == logv(opts, out, msg)
       IN opts' = r.opts /\ out' = r.out
    /\ calls' = Append(calls, [fn |-> "logv", msg |-> msg,
                               deferred |-> opts.verbose = "None"])
    /\ UNCHANGED <<logenv, pc, frame>>

\* logvv(msg) called, lines 48-56
CallLogvv(msg) ==
    /\ pc = "idle"
    /\ Len(calls) < MaxLogCalls
    /\ LET r == logvv(opts, out, msg)
       IN opts' = r.opts /\ out' = r.out
    /\ calls' = Append(calls, [fn |-> "logvv", msg |-> msg,
                               deferred |-> opts.very_verbose = "None"])
    /\ UNCHANGED <<logenv, pc, frame>>

\* the option parser settles quiet, verbose and very_verbose, then replays
Establish ==
    /\ pc = "idle"
    /\ opts.verbose = "None"
    /\ opts.very_verbose = "None"
    /\ \E v, vv \in {"True", "False"}, q \in BOOLEAN :
          opts' = [opts EXCEPT !.verbose = v, !.very_verbose = vv, !.quiet = q]
    /\ pc' = "replay"
    /\ frame' = [NoFrame EXCEPT !.op = "replay", !.i = 1]
    /\ UNCHANGED <<logenv, out, calls>>

\* the replay: each queued closure is called once, in the order queued
Replay ==
    /\ pc = "replay"
    /\ IF frame.i > Len(opts.parsed_deferrables)
       THEN /\ pc' = "idle"
            /\ frame' = [frame EXCEPT !.op = "replayed"]
            /\ UNCHANGED <<opts, out>>
       ELSE LET r == deferrable(opts, out, opts.parsed_deferrables[frame.i])
            IN /\ opts' = r.opts
               /\ out' = r.out
               /\ frame' = [frame EXCEPT !.i = @ + 1]
               /\ pc' = pc
    /\ UNCHANGED <<logenv, calls>>

NextLog ==
    \/ \E msg \in LogMessages : CallLogv(msg)
    \/ \E msg \in LogMessages : CallLogvv(msg)
    \/ Establish
    \/ Replay

SpecLog == InitLog /\ [][NextLog]_vars

----------------------------------------------------------------------------
(* colorize called on its own, and on its own result.  mx_logging.py binds  *)
(* the names of mx_system.py by the star import of its line 30, which runs  *)
(* while mx_system.py is still at its own star import (line 40): abort,     *)
(* defined at line 246, is not among the names bound.  When mx_logging.py   *)
(* is the module imported first it is the other way round: abort is bound   *)
(* and runs, and log_error is the name mx_system.py lacks at its line 304.  *)

\* texts without a complete escape sequence
PlainTexts == {S_empty, S_boom, <<"ESC", "[">>}

\* the color names handed to colorize: those of the table and one that is not
Colors == DOMAIN ansi_color_table \cup {"pink"}

\* texts carrying up to n escape sequences, with or without the reset
RECURSIVE Wrapped(_)
Wrapped(n) ==
    IF n = 0 THEN PlainTexts
    ELSE LET w == Wrapped(n - 1)
         IN w \cup {color_on(c, b) \o m : c \in {"red", "magenta"}, b \in BOOLEAN, m \in w}
              \cup {color_on(c, b) \o m \o color_reset :
                        c \in {"red", "magenta"}, b \in BOOLEAN, m \in w}

ColorMessages == {PyNone} \cup {PyStr(m) : m \in Wrapped(MaxWraps)}

InitColor ==
    /\ platform \in Platforms
    /\ stderr_isatty \in BOOLEAN
    /\ currentSubprocesses = <<>>
    /\ procs = <<>>
    /\ pgid = <<>>
    /\ opts = [killwithsigquit |-> FALSE, warn |-> TRUE, verbose |-> "False",
               very_verbose |-> "False", quiet |-> FALSE, parsed_deferrables |-> <<>>]
    /\ pc = "idle"
    /\ frame = NoFrame
    /\ sent = <<>>
    /\ out = <<>>
    /\ err = <<>>
    /\ result = NoResult
    /\ calls = <<>>
    /\ fs = Missing

\* colorize(msg, color, bright, stream) called, line 98
CallColorize(msg, color, bright) ==
    /\ pc = "idle"
    /\ frame' = [NoFrame EXCEPT !.op = "colorize", !.message = msg, !.color = color,
                                !.bright = bright, !.i = 1]
    /\ pc' = "colorize_105"
    /\ UNCHANGED <<env, procs, opts, sent, out, err, result>>

\* colorize, lines 105-117; the call of abort at line 108 ends in one of the
\* two ways the import order leaves open (no subprocess is registered here)
colorize_105 ==
    /\ pc = "colorize_105"
    /\ result' \in
          IF frame.message = PyNone THEN {Returned(PyNone)}
          ELSE IF frame.color \notin DOMAIN ansi_color_table
               THEN {Raised("NameError", 108), Raised("NameError", 304)}
               ELSE {Returned(PyStr(colorize(frame.message.v, frame.color, frame.bright,
                                             stderr_isatty)))}
    /\ pc' = "done"
    /\ UNCHANGED <<env, procs, opts, sent, out, err, frame>>

\* colorize called on the string it has just returned, with the same color,
\* brightness and stream
CallColorizeAgain ==
    /\ pc = "done"
    /\ frame.op = "colorize"
    /\ frame.i = 1
    /\ result.kind = "return"
    /\ result.value # PyNone
    /\ frame' = [frame EXCEPT !.message = result.value, !.prev = result.value, !.i = 2]
    /\ result' = NoResult
    /\ pc' = "colorize_105"
    /\ UNCHANGED <<env, procs, opts, sent, out, err>>

NextColor ==
    \/ \E msg \in ColorMessages, color \in Colors, bright \in BOOLEAN :
          CallColorize(msg, color, bright)
    \/ colorize_105
    \/ CallColorizeAgain

SpecColor == InitColor /\ [][NextColor]_vars

----------------------------------------------------------------------------
(* Paths: safe_path, with normpath and isabs as ntpath has them (pure       *)
(* Python versions of CPython 3.11).  A path is a sequence of characters;   *)
(* a name such as UNC or server stands as one character.                    *)

sep == "\\"
altsep == "/"
curdir == <<".">>
pardir == <<".", ".">>
S_escape == <<sep, sep, "?", sep>>
S_escape_UNC == <<sep, sep, "?", sep, "UNC">>
unc_prefix == <<sep, sep, "?", sep, "UNC", sep>>
S_forward_slash == <<"Forward slash in path on windows: ">>

\* path.replace(altsep, sep)
replace_altsep(path) == [k \in 1..Len(path) |-> IF path[k] = altsep THEN sep ELSE path[k]]

\* normp.find(sep, start), positions counted from 1, 0 when there is none
find_sep(path, start) ==
    LET ks == {k \in start..Len(path) : path[k] = sep}
    IN IF ks = {} THEN 0 ELSE CHOOSE k \in ks : \A j \in ks : k <= j

\* ntpath.splitdrive
splitdrive(path) ==
    LET normp == replace_altsep(path)
        none == [drive |-> <<>>, rest |-> path]
        all == [drive |-> path, rest |-> <<>>]
    IN IF Len(path) < 2 THEN none
       ELSE IF SubSeq(normp, 1, 2) = <<sep, sep>>
       THEN LET start == IF startswith(normp, unc_prefix) THEN Len(unc_prefix) + 1 ELSE 3
                index == find_sep(normp, start)
                index2 == find_sep(normp, index + 1)
            IN IF index = 0 \/ index2 = 0 THEN all
               ELSE [drive |-> SubSeq(path, 1, index2 - 1),
                     rest |-> SubSeq(path, index2, Len(path))]
       ELSE IF normp[2] = ":"
       THEN [drive |-> SubSeq(path, 1, 2), rest |-> SubSeq(path, 3, Len(path))]
       ELSE none

\* path.lstrip(sep)
RECURSIVE lstrip_sep(_)
lstrip_sep(path) ==
    IF Len(path) > 0 /\ path[1] = sep THEN lstrip_sep(Tail(path)) ELSE path

\* path.split(sep)
RECURSIVE split_sep(_)
split_sep(path) ==
    LET k == find_sep(path, 1)
    IN IF k = 0 THEN <<path>>
       ELSE <<SubSeq(path, 1, k - 1)>> \o split_sep(SubSeq(path, k + 1, Len(path)))

\* sep.join(comps)
RECURSIVE join_sep(_)
join_sep(comps) ==
    IF Len(comps) = 0 THEN <<>>
    ELSE IF Len(comps) = 1 THEN comps[1]
    ELSE comps[1] \o <<sep>> \o join_sep(Tail(comps))

\* the loop of normpath over comps: kept is what stays of the components
\* gone through so far
RECURSIVE collapse(_, _, _)
collapse(comps, kept, rooted) ==
    IF Len(comps) = 0 THEN kept
    ELSE LET c == Head(comps)
         IN IF c = <<>> \/ c = curdir THEN collapse(Tail(comps), kept, rooted)
            ELSE IF c = pardir
            THEN IF Len(kept) > 0 /\ kept[Len(kept)] # pardir
                 THEN collapse(Tail(comps), SubSeq(kept, 1, Len(kept) - 1), rooted)
                 ELSE IF Len(kept) = 0 /\ rooted
                 THEN collapse(Tail(comps), kept, rooted)
                 ELSE collapse(Tail(comps), Append(kept, c), rooted)
            ELSE collapse(Tail(comps), Append(kept, c), rooted)

\* ntpath.normpath
normpath(path) ==
    LET sd == splitdrive(replace_altsep(path))
        rooted == Len(sd.rest) > 0 /\ sd.rest[1] = sep
        prefix == IF rooted THEN Append(sd.drive, sep) ELSE sd.drive
        comps == collapse(split_sep(lstrip_sep(sd.rest)), <<>>, rooted)
    IN IF Len(prefix) = 0 /\ Len(comps) = 0 THEN curdir
       ELSE prefix \o join_sep(comps)

\* ntpath.isabs
isabs(path) ==
    LET s == replace_altsep(SubSeq(path, 1, IF Len(path) < 3 THEN Len(path) ELSE 3))
    IN startswith(s, <<sep>>) \/ (Len(s) = 3 /\ s[2] = ":" /\ s[3] = sep)

\* safe_path(path), lines 199 and 204-216: the path returned
safe_path(path) ==
    IF is_windows
    THEN LET p == normpath(path)
         IN IF isabs(p)
            THEN IF startswith(p, <<sep, sep>>)
                 THEN IF startswith(SubSeq(p, 3, Len(p)), <<"?", sep>>)
                      THEN p
                      ELSE S_escape_UNC \o p
                 ELSE S_escape \o p
            ELSE p
    ELSE path

----------------------------------------------------------------------------
(* safe_path called on its own, and on its own result *)

\* what a path starts with, written with the separator s: nothing, a drive,
\* a drive and root, a root alone, a UNC share, and the two escaped forms
Roots(s) ==
    {<<>>, <<"C", ":">>, <<"C", ":", s>>, <<s>>,
     <<s, s, "server", s, "share", s>>,
     <<s, s, "?", s, "C", ":", s>>,
     <<s, s, "?", s, "UNC", s, "server", s, "share", s>>}

PathNames == {<<"a">>, <<"x">>, curdir, pardir}

\* up to n names joined by the separator s
RECURSIVE Tails(_, _)
Tails(n, s) ==
    IF n = 0 THEN {<<>>}
    ELSE LET t == Tails(n - 1, s)
         IN t \cup {(IF Len(u) = 0 THEN u ELSE Append(u, s)) \o c : u \in t, c \in PathNames}

Paths == UNION {{r \o t : r \in Roots(s), t \in Tails(MaxComps, s)} : s \in {sep, altsep}}

InitPath ==
    /\ platform \in Platforms
    /\ stderr_isatty = FALSE
    /\ currentSubprocesses = <<>>
    /\ procs = <<>>
    /\ pgid = <<>>
    /\ \E v \in {"True", "False"} :
          opts = [killwithsigquit |-> FALSE, warn |-> TRUE, verbose |-> v,
                  very_verbose |-> "False", quiet |-> FALSE, parsed_deferrables |-> <<>>]
    /\ pc = "idle"
    /\ frame = NoFrame
    /\ sent = <<>>
    /\ out = <<>>
    /\ err = <<>>
    /\ result = NoResult
    /\ calls = <<>>
    /\ fs = Missing

\* safe_path(path) called, line 191
CallSafePath(path) ==
    /\ pc = "idle"
    /\ frame' = [NoFrame EXCEPT !.op = "safe_path", !.message = PyStr(path), !.i = 1]
    /\ pc' = "safe_path_198"
    /\ UNCHANGED <<env, procs, opts, sent, out, err, result>>

\* safe_path, lines 198-216: on Windows in verbose mode a path with a forward
\* slash is warned about and the stack printed; the path is returned
safe_path_198 ==
    /\ pc = "safe_path_198"
    /\ LET path == frame.message.v
       IN /\ err' = IF /\ is_windows
                       /\ opts.verbose = "True"
                       /\ \E k \in 1..Len(path) : path[k] = altsep
                    THEN Append(warn(opts, err, S_forward_slash \o path, PyNone),
                                <<"<traceback>">>)
                    ELSE err
          /\ result' = Returned(PyStr(safe_path(path)))
    /\ pc' = "done"
    /\ UNCHANGED <<env, procs, opts, sent, out, frame>>

\* safe_path called on the path it has just returned
CallSafePathAgain ==
    /\ pc = "done"
    /\ frame.op = "safe_path"
    /\ frame.i = 1
    /\ frame' = [frame EXCEPT !.message = result.value, !.prev = result.value, !.i = 2]
    /\ result' = NoResult
    /\ pc' = "safe_path_198"
    /\ UNCHANGED <<env, procs, opts, sent, out, err>>

NextPath ==
    \/ \E path \in Paths : CallSafePath(path)
    \/ safe_path_198
    \/ CallSafePathAgain

SpecPath == InitPath /\ [][NextPath]_vars

----------------------------------------------------------------------------
(* rmtree *)

\* os.remove, os.unlink and os.rmdir on the entry e: the exception raised, if
\* any, and the entry afterwards
remove(e) ==
    IF e.kind = "missing" THEN [exc |-> "FileNotFoundError", fs |-> e]
    ELSE IF e.denied # "no" THEN [exc |-> "PermissionError", fs |-> e]
    ELSE [exc |-> "none", fs |-> Missing]

\* os.chmod(_path, S_IWRITE)
chmod(e) ==
    IF e.kind = "missing" THEN [exc |-> "FileNotFoundError", fs |-> e]
    ELSE [exc |-> "none",
          fs |-> IF e.denied = "until_chmod" THEN [e EXCEPT !.denied = "no"] ELSE e]

\* an error handler that swallows every error
on_error_swallow(ignore_errors, e, exc) == [exc |-> "none", line |-> 0, fs |-> e]

\* on_error as lines 225-237 define it, called while exc is being handled:
\* the exception that leaves it, if any, with the line raising it, and the
\* entry afterwards
on_error(ignore_errors, e, exc) ==
    IF ignore_errors THEN [exc |-> "none", line |-> 0, fs |-> e]
    ELSE IF is_windows
    THEN LET c == chmod(e)
             r == remove(c.fs)
         IN IF c.exc # "none" THEN [exc |-> c.exc, line |-> 230, fs |-> c.fs]
            ELSE [exc |-> r.exc, line |-> IF e.kind = "dir" THEN 232 ELSE 234, fs |-> r.fs]
    ELSE [exc |-> exc, line |-> 237, fs |-> e]

\* paths handed to rmtree
RmPaths == {<<"a">>, <<"C", ":", sep, "a">>}

\* what may be at the path
Entries_fs ==
    {Missing} \cup {Entry(k, d) : k \in {"file", "dir"}, d \in {"no", "until_chmod", "always"}}

InitTree ==
    /\ platform \in Platforms
    /\ fs \in Entries_fs
    /\ stderr_isatty = FALSE
    /\ currentSubprocesses = <<>>
    /\ procs = <<>>
    /\ pgid = <<>>
    /\ opts = [killwithsigquit |-> FALSE, warn |-> TRUE, verbose |-> "False",
               very_verbose |-> "False", quiet |-> FALSE, parsed_deferrables |-> <<>>]
    /\ pc = "idle"
    /\ frame = NoFrame
    /\ sent = <<>>
    /\ out = <<>>
    /\ err = <<>>
    /\ result = NoResult
    /\ calls = <<>>

\* what rmtree leaves alone
treeenv == <<platform, procs, pgid, currentSubprocesses, opts, sent, out, err,
             stderr_isatty, calls>>

\* rmtree(path, ignore_errors) called, line 223
CallRmtree(path, ignore_errors) ==
    /\ pc = "idle"
    /\ frame' = [NoFrame EXCEPT !.op = "rmtree", !.path = path,
                                !.ignore_errors = ignore_errors, !.target = fs]
    /\ pc' = "rmtree_224"
    /\ UNCHANGED <<treeenv, fs, result>>

\* rmtree, lines 224 and 238-243: the path made safe, then shutil.rmtree of a
\* directory or os.remove of anything else; a failure goes to on_error
rmtree_224 ==
    /\ pc = "rmtree_224"
    /\ LET r == remove(fs)
       IN /\ fs' = r.fs
          /\ frame' = [frame EXCEPT !.path = safe_path(frame.path), !.exc = r.exc]
          /\ IF r.exc = "none"
             THEN result' = Returned(PyNone) /\ pc' = "done"
             ELSE result' = result /\ pc' = "rmtree_244"
    /\ UNCHANGED treeenv

\* rmtree, line 244 (line 239 for a directory): on_error handles the failure
rmtree_244 ==
    /\ pc = "rmtree_244"
    /\ LET h == on_error(frame.ignore_errors, fs, frame.exc)
       IN /\ fs' = h.fs
          /\ result' = IF h.exc = "none" THEN Returned(PyNone) ELSE Raised(h.exc, h.line)
    /\ pc' = "done"
    /\ UNCHANGED <<treeenv, frame>>

NextTree ==
    \/ \E path \in RmPaths, ignore_errors \in BOOLEAN : CallRmtree(path, ignore_errors)
    \/ rmtree_224
    \/ rmtree_244

SpecTree == InitTree /\ [][NextTree]_vars

----------------------------------------------------------------------------
(* Claims about abort, get_os, abort_or_warn, kill_process and send_sigquit *)

LastErr == err[Len(err)]

\* C1: abort resolves exit status and message: an integer codeOrMessage is the
\* exit status and the resolved context text is the message; any other
\* codeOrMessage exits with status 1, logging context + ":\n" + codeOrMessage
\* when the context text is not empty and codeOrMessage alone otherwise.
\* (Calls ended by a failure of the teardown are left to C3 and C4.)
C1_AbortResolvesStatusAndMessage ==
    (/\ frame.op = "abort"
     /\ pc = "done"
     /\ ~(result.kind = "raise" /\ result.line \in {141, 150})) =>
        LET c == frame.codeOrMessage
            ctx == IF frame.context = PyNone THEN S_empty ELSE describe(frame.context)
        IN /\ result.kind = "SystemExit"
           /\ Len(err) > 0
           /\ IF c.t = "int"
              THEN result.code = c.v /\ LastErr = ctx
              ELSE /\ result.code = 1
                   /\ LastErr = IF Len(ctx) > 0
                                THEN ctx \o S_colon_nl \o py_str(c)
                                ELSE py_str(c)

\* C2: subprocess cleanup happens before process exit: SystemExit is raised
\* only after the teardown loop has gone through every registry entry, the
\* final error message is on stderr by then, and while the teardown is still
\* running nothing but kill-failure lines has been written there.
C2_CleanupBeforeExit ==
    /\ (pc = "abort_305" \/ result.kind = "SystemExit") =>
          /\ frame.op = "abort"
          /\ frame.i > Len(currentSubprocesses)
          /\ Len(err) > 0
          /\ LastErr = log_error(frame.error_message)
    /\ (/\ frame.op = "abort"
        /\ pc \in {"abort_246", "abort_259", "send_sigquit_127", "send_sigquit_140",
                   "abort_264", "abort_265", "abort_270", "abort_271", "abort_280"}) =>
          /\ result = NoResult
          /\ \A k \in 1..Len(err) :
                startswith(err[k], <<"error while killing subprocess ">>)

\* C2 witness: abort has exited after signalling two different subprocesses
C2_Witness ==
    /\ result.kind = "SystemExit"
    /\ Len(currentSubprocesses) >= 2
    /\ \E a, b \in 1..Len(sent) : sent[a].pid # sent[b].pid

\* C3: abort never returns normally and never surfaces a resumable error:
\* whatever the registry holds and the subprocesses do, every call of abort
\* (here with an exit status or a message string, the arguments C1 finds
\* resolved) ends in SystemExit with the resolved exit status.
C3_AbortAlwaysExits ==
    (frame.op = "abort" /\ pc = "done" /\ frame.codeOrMessage.t \in {"int", "str"}) =>
        /\ result.kind = "SystemExit"
        /\ result.code = IF frame.codeOrMessage.t = "int" THEN frame.codeOrMessage.v
                         ELSE 1

\* C4: a failure while terminating one tracked subprocess, in the graceful
\* attempt or in the forced kill, never leaves abort: no call of abort ends
\* with the exception of a kill, and a call that has ended has gone through
\* every registry entry.
C4_KillFailureContained ==
    (frame.op = "abort" /\ pc = "done") =>
        /\ ~(result.kind = "raise" /\ result.line = 150)
        /\ (result.kind = "SystemExit" => frame.i > Len(currentSubprocesses))

\* C5: abort(None) exits with status zero.
C5_AbortNoneExitsZero ==
    (/\ frame.op = "abort"
     /\ pc = "done"
     /\ frame.codeOrMessage = PyNone
     /\ result.kind = "SystemExit") => result.code = 0

\* C6: get_os returns the canonical name of every supported platform, and for
\* any other platform takes the fatal path through abort: one error line and
\* SystemExit, not an ordinary exception.
C6_GetOsNameOrFatal ==
    (frame.op = "get_os" /\ pc = "done") =>
        LET name == CASE startswith(platform, S_darwin) -> S_darwin
                      [] startswith(platform, S_linux) -> S_linux
                      [] startswith(platform, S_openbsd) -> S_openbsd
                      [] startswith(platform, S_sunos) -> S_solaris
                      [] startswith(platform, S_win32) -> S_windows
                      [] startswith(platform, S_cygwin) -> S_cygwin
                      [] OTHER -> S_empty
        IN IF name # S_empty
           THEN result = Returned(PyStr(name))
           ELSE result.kind = "SystemExit" /\ Len(err) = 1

\* C7: abort_or_warn goes through the whole abort sequence when should_abort is
\* true (the message with its context on stderr, exit status 1) and otherwise
\* through warn, returning to the caller.
C7_AbortOrWarnRoutes ==
    (frame.op = "abort_or_warn" /\ pc = "done") =>
        IF frame.should_abort
        THEN /\ result = SystemExit(1)
             /\ Len(err) > 0
             /\ LastErr = IF frame.context = PyNone THEN frame.message.v
                          ELSE describe(frame.context) \o S_colon_nl \o frame.message.v
        ELSE result = Returned(PyNone)

\* C8: kill_process never raises; it returns true exactly when the signal was
\* delivered, to the whole group when pid leads its group and to pid alone
\* otherwise, and on an OS error it logs and returns false.
C8_KillProcessNeverRaises ==
    (frame.op = "kill_process" /\ pc = "done") =>
        /\ result.kind = "return"
        /\ result.value.v <=>
              sent = <<Signal(frame.pid, frame.sig,
                              IF pgid[frame.pid] = frame.pid THEN "group" ELSE "pid")>>
        /\ ~result.value.v => (sent = <<>> /\ Len(out) = 1)

\* C9: send_sigquit delivers SIGQUIT to an entry if and only if it is alive,
\* its command is java and the platform is not Windows, to the process and
\* never to its group, in registry order: when the call has ended, every
\* signal sent is such a SIGQUIT, and every java entry still alive has got one.
C9_SigquitToEveryLiveJava ==
    (frame.op = "send_sigquit" /\ pc = "done") =>
        /\ \A k \in 1..Len(sent) :
              /\ sent[k].sig = "SIGQUIT"
              /\ sent[k].target = "pid"
              /\ isJava(currentSubprocesses[sent[k].pid].args)
              /\ ~is_windows
              /\ \A m \in 1..(k - 1) : sent[m].pid < sent[k].pid
        /\ \A e \in {currentSubprocesses[k] : k \in 1..Len(currentSubprocesses)} :
              (is_process_alive(e.pid) /\ isJava(e.args) /\ ~is_windows) =>
                  \E k \in 1..Len(sent) : sent[k].pid = e.pid

----------------------------------------------------------------------------
(* Claims about early logging *)

\* the flag a call is gated on is true
FlagTrue(c) ==
    IF c.fn = "logv" THEN opts.verbose = "True" ELSE opts.very_verbose = "True"

WasDeferred(c) == c.deferred

\* the lines log prints for the messages of the calls cs, in order
Lines(cs) ==
    [k \in 1..Len(cs) |-> IF cs[k].msg = PyNone THEN S_empty ELSE py_str(cs[k].msg)]

\* the queue holds one closure per deferred call, in call order, and no other
OneThunkPerDeferredCall ==
    LET q == opts.parsed_deferrables
        d == SelectSeq(calls, WasDeferred)
    IN /\ Len(q) = Len(d)
       /\ \A k \in 1..Len(q) : q[k].fn = d[k].fn /\ q[k].msg = d[k].msg

\* C10 as stated: a logv / logvv call made while its flag is undetermined
\* prints nothing and queues exactly one closure; once the flags are settled
\* and the queue replayed, each message is printed exactly once if its flag is
\* true and not at all if it is false, and the replay queues nothing.
C10_ReplayPrintsOncePerTrueFlag ==
    /\ OneThunkPerDeferredCall
    /\ opts.verbose = "None" => out = <<>>
    /\ frame.op = "replayed" => out = Lines(SelectSeq(calls, FlagTrue))

\* C10 amended: as above, except that under quiet mode log prints nothing, so
\* after the replay each message whose flag is true has been printed exactly
\* once when quiet is off and not at all when quiet is on.
C10_ReplayPrintsOnceUnlessQuiet ==
    /\ OneThunkPerDeferredCall
    /\ opts.verbose = "None" => out = <<>>
    /\ frame.op = "replayed" =>
          out = IF opts.quiet THEN <<>> ELSE Lines(SelectSeq(calls, FlagTrue))

\* C10 witness: two calls were deferred, the replay printed one of them (its
\* flag true) and not the other (its flag false)
C10_Witness ==
    /\ frame.op = "replayed"
    /\ Len(opts.parsed_deferrables) = 2
    /\ ~opts.quiet
    /\ opts.verbose = "True"
    /\ opts.very_verbose = "False"
    /\ \E a, b \in 1..Len(calls) : calls[a].fn = "logv" /\ calls[b].fn = "logvv"
    /\ Len(out) = 1

----------------------------------------------------------------------------
(* Claims about the order of the teardown *)

\* the signals in snt that end a process: all but SIGQUIT
IsTermination(x) == x.sig # "SIGQUIT"

\* the graceful signal of the running abort has been delivered to pid
GracefulSent(snt, pid) ==
    \E k \in 1..Len(snt) :
        /\ snt[k].pid = pid
        /\ snt[k].sig = IF is_windows THEN "terminate" ELSE frame.killsig

\* C15: escalation order inside abort, per tracked subprocess: the graceful
\* attempt is begun only on a process found alive; the forced kill is begun
\* only from the re-check, on a process found alive there, after the graceful
\* signal to the same process; every SIGKILL delivered follows the graceful
\* signal to that process; and with killwithsigquit set every SIGQUIT comes
\* before the first termination signal, which comes only after the SIGQUIT
\* pass has gone through the whole registry.
C15_EscalationOrder ==
    [][frame'.op = "abort" =>
          /\ (pc # "abort_265" /\ pc' = "abort_265") =>
                /\ pc = "abort_264"
                /\ procs[currentSubprocesses[frame.i].pid] = "running"
                /\ ~\E k \in 1..Len(sent) :
                       IsTermination(sent[k]) /\ sent[k].pid = currentSubprocesses[frame.i].pid
          /\ (pc # "abort_271" /\ pc' = "abort_271") =>
                /\ pc = "abort_270"
                /\ procs[currentSubprocesses[frame.i].pid] = "running"
                /\ GracefulSent(sent, currentSubprocesses[frame.i].pid)
          /\ \A k \in 1..Len(sent') :
                /\ sent'[k].sig = "SIGKILL" =>
                      \E j \in 1..(k - 1) :
                          sent'[j].pid = sent'[k].pid /\ sent'[j].sig = frame'.killsig
                /\ sent'[k].sig = "SIGQUIT" =>
                      \A j \in 1..(k - 1) : sent'[j].sig = "SIGQUIT"
          /\ (opts.killwithsigquit /\ \E k \in 1..Len(sent') : IsTermination(sent'[k])) =>
                frame'.j > Len(currentSubprocesses)
    ]_vars

\* C15 witness: with killwithsigquit set, one subprocess has got SIGQUIT, then
\* the graceful signal, then SIGKILL
C15_Witness ==
    /\ frame.op = "abort"
    /\ opts.killwithsigquit
    /\ \E a, b, c \in 1..Len(sent) :
          /\ a < b /\ b < c
          /\ sent[a].pid = sent[b].pid /\ sent[b].pid = sent[c].pid
          /\ sent[a].sig = "SIGQUIT"
          /\ sent[b].sig = frame.killsig
          /\ sent[c].sig = "SIGKILL"

\* C16: the registry is consulted, never authoritative: in abort and in
\* send_sigquit a signal or terminate call is issued only for the entry the
\* loop is at, in a step begun only from the liveness check of that same
\* iteration, which found the process alive; and neither operation changes
\* the registry.
C16_LivenessCheckedBeforeSignal ==
    [][frame'.op \in {"abort", "send_sigquit"} =>
          /\ currentSubprocesses' = currentSubprocesses
          /\ sent' # sent =>
                /\ pc \in {"send_sigquit_140", "abort_265", "abort_271"}
                /\ \E x \in {sent'[Len(sent')]} :
                      /\ sent' = Append(sent, x)
                      /\ x.pid = currentSubprocesses[IF pc = "send_sigquit_140"
                                                     THEN frame.j ELSE frame.i].pid
          /\ (pc # "send_sigquit_140" /\ pc' = "send_sigquit_140") =>
                /\ pc = "send_sigquit_127"
                /\ frame' = frame
                /\ procs[currentSubprocesses[frame.j].pid] = "running"
          /\ (pc # "abort_265" /\ pc' = "abort_265") =>
                /\ pc = "abort_264"
                /\ frame' = frame
                /\ procs[currentSubprocesses[frame.i].pid] = "running"
          /\ (pc # "abort_271" /\ pc' = "abort_271") =>
                /\ pc = "abort_270"
                /\ frame' = frame
                /\ procs[currentSubprocesses[frame.i].pid] = "running"
    ]_vars

\* C16 witness: abort has exited having signalled one registered subprocess
\* and sent nothing to another, which had exited on its own
C16_Witness ==
    /\ frame.op = "abort"
    /\ result.kind = "SystemExit"
    /\ \E p, q \in Pids :
          /\ procs[p] = "gone"
          /\ \A k \in 1..Len(sent) : sent[k].pid # p
          /\ \E k \in 1..Len(sent) : sent[k].pid = q

----------------------------------------------------------------------------
(* Claims about colorize *)

\* the platform is Unix-like: Linux, macOS, a BSD or Solaris
UnixLike ==
    \/ is_linux
    \/ is_darwin
    \/ is_openbsd
    \/ is_sunos
    \/ startswith(platform, S_freebsd)

\* colorize applied to its own result gives that result again
ColorizeTwiceIsOnce ==
    (frame.op = "colorize" /\ pc = "done" /\ frame.i = 2) =>
        result = Returned(frame.prev)

\* C11: colorize is idempotent for a fixed color, brightness and stream, and
\* for a color of the table it returns msg unchanged when msg already begins
\* with the escape sequence of that color and brightness or the stream is not
\* an interactive terminal on a Unix-like platform, and escape + msg + reset
\* otherwise.
C11_ColorizeIdempotent ==
    /\ ColorizeTwiceIsOnce
    /\ (/\ frame.op = "colorize"
        /\ pc = "done"
        /\ frame.message # PyNone
        /\ frame.color \in DOMAIN ansi_color_table) =>
          LET msg == frame.message.v
              escape == color_on(frame.color, frame.bright)
          IN result = Returned(PyStr(
                 IF startswith(msg, escape) \/ ~(stderr_isatty /\ UnixLike)
                 THEN msg
                 ELSE escape \o msg \o color_reset))

\* C12: colorize(None) returns None for every color, and colorize of any other
\* msg with a color that is not in the table never returns: it ends in abort,
\* with an 'Unsupported color' line on stderr and exit status 1.
C12_UnsupportedColorIsFatal ==
    (frame.op = "colorize" /\ pc = "done") =>
        /\ frame.message = PyNone => result = Returned(PyNone)
        /\ (frame.message # PyNone /\ frame.color \notin DOMAIN ansi_color_table) =>
              /\ result = SystemExit(1)
              /\ Len(err) = 1
              /\ startswith(err[1], <<"Unsupported color: ">>)

----------------------------------------------------------------------------
(* Claims about safe_path and rmtree *)

\* safe_path applied to its own result gives that result again
SafePathTwiceIsOnce ==
    (frame.op = "safe_path" /\ pc = "done" /\ frame.i = 2) =>
        result = Returned(frame.prev)

\* C13: safe_path is the identity on every platform but Windows; on Windows a
\* normalized absolute UNC path \\server\share\x becomes
\* \\?\UNC\server\share\x, an absolute local path C:\a becomes \\?\C:\a, a
\* relative path gets no prefix, a path that already carries the \\?\ escape
\* is not escaped again, and safe_path(safe_path(p)) = safe_path(p).
C13_SafePathEscapesOnce ==
    /\ SafePathTwiceIsOnce
    /\ (frame.op = "safe_path" /\ pc = "done" /\ ~is_windows) =>
          result = Returned(frame.message)
    /\ (/\ frame.op = "safe_path"
        /\ pc = "done"
        /\ is_windows
        /\ normpath(frame.message.v) = frame.message.v) =>
          LET p == frame.message.v
          IN result.value.v =
                IF startswith(p, S_escape) THEN p
                ELSE IF startswith(p, <<sep, sep>>) THEN S_escape_UNC \o Tail(p)
                ELSE IF Len(p) >= 3 /\ p[2] = ":" /\ p[3] = sep THEN S_escape \o p
                ELSE IF p[1] # sep THEN p
                ELSE result.value.v

\* C14 as stated: on a path that does not exist rmtree returns normally, on
\* every platform and for both values of ignore_errors; any other deletion
\* error is swallowed when ignore_errors is set and propagates otherwise on a
\* platform that is not Windows.
C14_NotFoundSwallowed ==
    (frame.op = "rmtree" /\ pc = "done") =>
        /\ frame.target.kind = "missing" => result = Returned(PyNone)
        /\ (frame.exc = "PermissionError" /\ frame.ignore_errors) =>
              result = Returned(PyNone)
        /\ (frame.exc = "PermissionError" /\ ~frame.ignore_errors /\ ~is_windows) =>
              result.kind = "raise"

\* C14 amended: on a target that is not a directory rmtree removes the single
\* file; a failure of the removal, not found included, is swallowed exactly
\* when ignore_errors is set; with ignore_errors false it propagates on a
\* platform that is not Windows, and on Windows a path that does not exist
\* raises from the handler's chmod.
C14_ErrorsSwallowedOnlyIfIgnored ==
    (frame.op = "rmtree" /\ pc = "done") =>
        /\ frame.target.kind = "missing" => frame.exc = "FileNotFoundError"
        /\ (frame.target = Entry("file", "no")) => (result = Returned(PyNone) /\ fs = Missing)
        /\ (frame.exc # "none" /\ frame.ignore_errors) =>
              (result = Returned(PyNone) /\ fs = frame.target)
        /\ (frame.exc # "none" /\ ~frame.ignore_errors /\ ~is_windows) =>
              (result = Raised(frame.exc, 237) /\ fs = frame.target)
        /\ (frame.target.kind = "missing" /\ ~frame.ignore_errors /\ is_windows) =>
              result = Raised("FileNotFoundError", 230)

\* C14 witness: rmtree of a path that does not exist, with ignore_errors
\* false, has ended by raising the not found error
C14_Witness ==
    /\ frame.op = "rmtree"
    /\ pc = "done"
    /\ frame.target.kind = "missing"
    /\ ~frame.ignore_errors
    /\ ~is_windows
    /\ result = Raised("FileNotFoundError", 237)

====
